---- MODULE Spec2Model ----
(***************************************************************************)
(* lazyssh: the controller of src/src/app.rs (struct App) as a state       *)
(* machine over key events, together with the collaborators it calls:     *)
(* the key directory, the trash, the key-generation service (ssh-keygen),  *)
(* the agent (ssh-add) and the clipboard.                                  *)
(*                                                                         *)
(* Strings are sequences of tokens.  A token is a character or one of the  *)
(* atomic pieces ".pub", " - ", "id_", ... that the code tests for or      *)
(* formats; format!/join are concatenation (\o), ends_with / contains /    *)
(* split / trim are computed on the token sequence.                        *)
(***************************************************************************)
EXTENDS Integers, Sequences, FiniteSets, TLC

(***************************************************************************)
(* Bounds of the model.                                                    *)
(***************************************************************************)
\* number of events the run loop takes in one behaviour
MaxEvents == 4
\* the same for a behaviour that starts in the create form
MaxFormEvents == 2
\* length of the texts the create form holds when such a behaviour starts
MaxStrLen == 1
\* number of files in the key directory when the program starts
MaxInitFiles == 3
\* number of times the event thread polls the terminal in one behaviour
MaxPolls == 3

(***************************************************************************)
(* Program constants.                                                      *)
(***************************************************************************)
FORM_FIELD_COUNT == 6
\* usize::MAX, the value 0usize - 1 wraps to in a build without overflow
\* checks; every index the model reaches is below it
UsizeMax == 2147483647

key_types == <<"rsa", "dsa", "ecdsa", "ed25519">>
bits_options == <<"1024", "2048", "4096">>
\* the keycode of each item of the key-bindings popup, in order
KeyBindingItems == <<"n", "a", "d", "c", "r">>

(***************************************************************************)
(* String helpers (std::str).                                              *)
(***************************************************************************)
PUB == ".pub"
SEP == " - "

ends_with_pub(s) == Len(s) > 0 /\ s[Len(s)] = PUB

RECURSIVE trim_end_matches_pub(_)
trim_end_matches_pub(s) ==
    IF ends_with_pub(s) THEN trim_end_matches_pub(SubSeq(s, 1, Len(s) - 1)) ELSE s

contains_sep(s) == \E i \in 1..Len(s) : s[i] = SEP

\* selected_file.split(" - ").next().unwrap(): the part before the first " - "
RECURSIVE split_sep_first(_)
split_sep_first(s) ==
    IF s = <<>> \/ Head(s) = SEP THEN <<>> ELSE <<Head(s)>> \o split_sep_first(Tail(s))

RECURSIVE trim_start(_)
trim_start(s) == IF s # <<>> /\ Head(s) = " " THEN trim_start(Tail(s)) ELSE s

RECURSIVE trim_end(_)
trim_end(s) ==
    IF s # <<>> /\ s[Len(s)] = " " THEN trim_end(SubSeq(s, 1, Len(s) - 1)) ELSE s

trim(s) == trim_end(trim_start(s))

\* "*".repeat(n)
repeat_star(n) == [i \in 1..n |-> "*"]

\* Vec::remove(i) with a 0-based index
vec_remove(v, i) == SubSeq(v, 1, i) \o SubSeq(v, i + 2, Len(v))

\* usize::saturating_sub(1)
saturating_sub1(n) == IF n = 0 THEN 0 ELSE n - 1

\* usize subtraction in a build without overflow checks
wrapping_sub1(n) == IF n = 0 THEN UsizeMax ELSE n - 1

(***************************************************************************)
(* The inputs: key events and the files of the key directory.              *)
(***************************************************************************)
\* characters the user types: the seven command characters and a blank
CharKeys == {"q", "?", "n", "a", "d", "c", "r", " "}
OtherCodes == {"Enter", "Esc", "Tab", "BackTab", "Backspace", "Delete", "Up", "Down", "F1"}
Keys == [code : {"Char"}, c : CharKeys] \cup [code : OtherCodes, c : {""}]
\* characters the user types into the create form, where every character is text
FormChars == {"q", " "}
FormKeys == [code : {"Char"}, c : FormChars] \cup [code : OtherCodes, c : {""}]
Char(c) == [code |-> "Char", c |-> c]
Code(k) == [code |-> k, c |-> ""]

\* the output of SystemTime::now() in seconds
Timestamps == {"1700000000"}
\* what a failing service writes to stderr
StderrTexts == {"unknown key type", "Saving key failed"}

\* "h - m" is one file, whose name holds the separator of a pair's label
FileUniverse == { <<"k">>, <<"k", PUB>>, <<"h">>, <<"h", SEP, "m">>, <<"k", PUB, PUB>> }
InitDirs == { d \in SUBSET FileUniverse : Cardinality(d) <= MaxInitFiles }

NoFiles == <<"No SSH files found">>

VARIABLES
    pc,                       \* "new", "running", "returned" or "panicked"
    running, command_log, ssh_files, selected,
    show_key_bindings, show_confirm_delete, show_create_form,
    create_form_state, key_name, passphrase, re_passphrase, comment,
    selected_key_type_index, selected_bits_index,
    key_bindings_state,
    dir_exists, dir, trash, agent, clipboard,
    budget,                   \* events the run loop may still take
    last,                     \* the last event: the mode, the selection and the
                              \* agent's keys it was taken with, and the handler
                              \* that processed it
    calls,                    \* the external calls of the last event, in order
    event_handler,            \* EventHandler: the channel (receiver) and the
                              \* thread that feeds it (handler)
    history                   \* what the thread has read and sent and what the
                              \* loop has taken, in order

listVars == <<ssh_files, selected>>
modeVars == <<show_key_bindings, show_confirm_delete, show_create_form>>
textVars == <<key_name, passphrase, re_passphrase, comment>>
formVars == <<create_form_state, key_name, passphrase, re_passphrase, comment,
              selected_key_type_index, selected_bits_index>>
envVars == <<dir_exists, dir, trash, agent, clipboard>>
vars == <<pc, running, command_log, ssh_files, selected,
          show_key_bindings, show_confirm_delete, show_create_form,
          create_form_state, key_name, passphrase, re_passphrase, comment,
          selected_key_type_index, selected_bits_index, key_bindings_state,
          dir_exists, dir, trash, agent, clipboard, budget, last, calls,
          event_handler, history>>

(***************************************************************************)
(* KeyStore: the scan of the key directory.                                *)
(***************************************************************************)
Perms(S) ==
    { f \in [1..Cardinality(S) -> S] :
        \A i, j \in 1..Cardinality(S) : i # j => f[i] # f[j] }

MapSeq(s, Op(_)) == [i \in 1..Len(s) |-> Op(s[i])]

PairLabel(key) == key \o <<SEP>> \o key \o <<PUB>>
PubLabel(key) == key \o <<PUB>>

\* the three branches of the classification of one file name
private_keys(d) == { f \in d : ~ends_with_pub(f) }
public_keys(d) == { trim_end_matches_pub(f) : f \in { g \in d : ends_with_pub(g) } }
other_files(d) == { f \in d : ~ends_with_pub(f) /\ ~(~ends_with_pub(f)) }

\* what load_ssh_files returns when fs::read_dir fails: `if let Ok(entries)` is
\* skipped, the three collections stay empty and so does the Vec
unreadable_scan == <<>>

\* load_ssh_files that returns an empty inventory when the directory is missing
load_ssh_files_without_sentinel(exists, d) ==
    IF exists
    THEN { MapSeq(a, PairLabel) \o b \o MapSeq(c, PubLabel) \o o :
             a \in Perms(private_keys(d) \cap public_keys(d)),
             b \in Perms(private_keys(d) \ public_keys(d)),
             c \in Perms(public_keys(d) \ private_keys(d)),
             o \in Perms(other_files(d)) }
         \cup { <<>> }
    ELSE { <<>> }

\* load_ssh_files that lists the private-only names before the pairs
load_ssh_files_private_first(exists, d) ==
    IF exists
    THEN { b \o MapSeq(a, PairLabel) \o MapSeq(c, PubLabel) \o o :
             a \in Perms(private_keys(d) \cap public_keys(d)),
             b \in Perms(private_keys(d) \ public_keys(d)),
             c \in Perms(public_keys(d) \ private_keys(d)),
             o \in Perms(other_files(d)) }
         \cup { <<>> }
    ELSE { <<NoFiles>> }

\* every Vec<String> load_ssh_files can return: the HashSet iteration order is
\* unspecified, and a failing read_dir leaves the three collections empty
\* (the inventories built from the entries of a directory that was read are
\* read_dir_scan)
read_dir_scan(d) ==
    { MapSeq(a, PairLabel) \o b \o MapSeq(c, PubLabel) \o o :
        a \in Perms(private_keys(d) \cap public_keys(d)),
        b \in Perms(private_keys(d) \ public_keys(d)),
        c \in Perms(public_keys(d) \ private_keys(d)),
        o \in Perms(other_files(d)) }

load_ssh_files(exists, d) ==
    IF exists
    THEN read_dir_scan(d) \cup { unreadable_scan }
    ELSE { <<NoFiles>> }

(***************************************************************************)
(* The state as one record, so that a handler is a function from the state *)
(* it is called in to the set of states it can return in, and a call       *)
(* sequence f(); g() is g applied to every result of f.                    *)
(***************************************************************************)
State ==
    [ pc |-> pc, running |-> running, command_log |-> command_log,
      ssh_files |-> ssh_files, selected |-> selected,
      show_key_bindings |-> show_key_bindings,
      show_confirm_delete |-> show_confirm_delete,
      show_create_form |-> show_create_form,
      create_form_state |-> create_form_state, key_name |-> key_name,
      passphrase |-> passphrase, re_passphrase |-> re_passphrase,
      comment |-> comment,
      selected_key_type_index |-> selected_key_type_index,
      selected_bits_index |-> selected_bits_index,
      key_bindings_state |-> key_bindings_state,
      dir_exists |-> dir_exists, dir |-> dir, trash |-> trash, agent |-> agent,
      clipboard |-> clipboard, budget |-> budget, last |-> last, calls |-> calls ]

\* the fields of App and the collaborators become those of t
AppBecomes(t) ==
    /\ pc' = t.pc /\ running' = t.running /\ command_log' = t.command_log
    /\ ssh_files' = t.ssh_files /\ selected' = t.selected
    /\ show_key_bindings' = t.show_key_bindings
    /\ show_confirm_delete' = t.show_confirm_delete
    /\ show_create_form' = t.show_create_form
    /\ create_form_state' = t.create_form_state /\ key_name' = t.key_name
    /\ passphrase' = t.passphrase /\ re_passphrase' = t.re_passphrase
    /\ comment' = t.comment
    /\ selected_key_type_index' = t.selected_key_type_index
    /\ selected_bits_index' = t.selected_bits_index
    /\ key_bindings_state' = t.key_bindings_state
    /\ dir_exists' = t.dir_exists /\ dir' = t.dir /\ trash' = t.trash
    /\ agent' = t.agent /\ clipboard' = t.clipboard
    /\ budget' = t.budget /\ last' = t.last /\ calls' = t.calls

\* a step of the loop seen without the channel: the event it handles is any
\* event, and the channel and the thread are left out of the step
Becomes(t) == AppBecomes(t) /\ UNCHANGED <<event_handler, history>>

\* g applied to every state of S in which the program has not panicked
Then(S, g(_)) == UNION { IF t.pc = "panicked" THEN {t} ELSE g(t) : t \in S }

\* the input mode on_key_event dispatches on
Mode(s) ==
    IF s.show_confirm_delete THEN "ConfirmingDelete"
    ELSE IF s.show_create_form THEN "CreatingKey"
    ELSE IF s.show_key_bindings THEN "ShowingBindings"
    ELSE "Browsing"

\* the handler op starts to process the event the loop has taken
Handling(s, op) == [s EXCEPT !.last.op = op]

\* push that keeps only the newest line
push_truncating(s, line) == [s EXCEPT !.command_log = <<line>>]

push(s, line) == [s EXCEPT !.command_log = Append(@, line)]

\* the log component: update appends the text of a CaptureExecutedCommand
\* action and ignores every other action
ShhComandLog_update(log, action) ==
    IF action.kind = "CaptureExecutedCommand" THEN Append(log, action.content) ELSE log
called(s, call) == [s EXCEPT !.calls = Append(@, call)]
panic(s) == [s EXCEPT !.pc = "panicked"]

(***************************************************************************)
(* Paths.                                                                  *)
(***************************************************************************)
\* dirs::home_dir().unwrap().join(".ssh"), as Path::display prints it
SSH_DIR == "/home/user/.ssh/"

is_absolute(p) == p # <<>> /\ Head(p) = SSH_DIR
\* ssh_dir.join(p): an absolute p replaces ssh_dir
ssh_dir_join(p) == IF is_absolute(p) THEN p ELSE <<SSH_DIR>> \o p
\* the file name a path of the key directory refers to
file_name(path) == Tail(path)
path_exists(s, path) == s.dir_exists /\ file_name(path) \in s.dir

\* ListState::selected().unwrap_or(0) applied to Vec::get: the selected entry
has_selected(s) == s.selected < Len(s.ssh_files)
selected_file(s) == s.ssh_files[s.selected + 1]

(***************************************************************************)
(* EventHandler (event.rs): a thread polls the terminal and sends what it  *)
(* reads, and a Tick when the tick rate has elapsed, into an mpsc channel. *)
(***************************************************************************)
\* TerminalEvent
Tick == [ev |-> "Tick", key |-> Code("")]
Key(e) == [ev |-> "Key", key |-> e]
Mouse == [ev |-> "Mouse", key |-> Code("")]
Resize == [ev |-> "Resize", key |-> Code("")]

\* what event::poll and event::read give the thread in one iteration: a
\* crossterm Event (a key event with its kind, ...), no event before the
\* timeout, or an error
PolledKeys == { Char("q"), Code("Down") }
Polled ==
    [ev : {"Key"}, press : BOOLEAN, key : PolledKeys]
    \cup [ev : {"Mouse", "Resize", "Focus", "Paste", "Timeout", "Err"},
          press : {FALSE}, key : {Code("")}]

\* EventHandler::new: the channel is empty, the thread is about to poll, and
\* the struct keeps the Sender the thread's Sender was cloned from
EventHandler_new ==
    [receiver |-> <<>>, handler |-> "poll", sender |-> TRUE, polls |-> 0]

\* the Senders of the channel that have not been dropped: the one the struct
\* keeps, and the thread's clone until the thread ends
Senders(eh) ==
    (IF eh.sender THEN {"event_handler.sender"} ELSE {})
    \cup (IF eh.handler # "panicked" THEN {"thread"} ELSE {})

(***************************************************************************)
(* Init: the state App::new builds, before run is called.                  *)
(***************************************************************************)
Init ==
    /\ pc = "new"
    /\ running = TRUE
    /\ command_log = <<>>
    /\ ssh_files = <<>>
    /\ selected = 0
    /\ show_key_bindings = FALSE
    /\ show_confirm_delete = FALSE
    /\ show_create_form = FALSE
    /\ create_form_state = 0
    /\ key_name = <<>>
    /\ passphrase = <<>>
    /\ re_passphrase = <<>>
    /\ comment = <<>>
    /\ selected_key_type_index = 0
    /\ selected_bits_index = 1
    /\ key_bindings_state = 0
    /\ dir_exists \in BOOLEAN
    /\ dir \in (IF dir_exists THEN InitDirs ELSE { {} })
    /\ trash = {}
    /\ agent = {}
    /\ clipboard = <<>>
    /\ budget = MaxEvents
    /\ last = [mode |-> "Browsing", op |-> "new", index |-> 0, agent |-> {}]
    /\ calls = <<>>
    /\ event_handler = EventHandler_new
    /\ history = [read |-> <<>>, sent |-> <<>>, taken |-> <<>>]

(***************************************************************************)
(* External collaborators.  Each call is recorded in calls; its outcome is *)
(* the collaborator's choice.                                              *)
(***************************************************************************)
Outcomes == {"spawn_failed", "failure", "success"}

\* svc with its path argument and its other arguments; result is the outcome and
\* output what the collaborator printed or returned
Call(svc, path, opts, result, output) ==
    [svc |-> svc, path |-> path, opts |-> opts, result |-> result, output |-> output]

\* trash_delete as std::fs::remove_file: the file is gone for good
trash_delete_permanent(s, path, willing) ==
    LET ok == willing /\ path_exists(s, path) IN
    IF ok
    THEN [called(s, Call("trash", path, <<>>, "success", <<>>)) EXCEPT
            !.dir = @ \ {file_name(path)}]
    ELSE called(s, Call("trash", path, <<>>, "failure", <<>>))

\* trash::delete(path).is_ok(): the file moves to the trash, or nothing happens
\* (a file that does not exist cannot be moved)
trash_delete(s, path, willing) ==
    LET ok == willing /\ path_exists(s, path) IN
    IF ok
    THEN [called(s, Call("trash", path, <<>>, "success", <<>>)) EXCEPT
            !.dir = @ \ {file_name(path)},
            !.trash = @ \cup {file_name(path)}]
    ELSE called(s, Call("trash", path, <<>>, "failure", <<>>))

last_call_ok(s) == s.calls[Len(s.calls)].result = "success"

\* the fingerprint ssh-keygen -lf prints for a key file: both halves of a key
\* have the same one
Fingerprint(path) == <<"SHA256:">> \o trim_end_matches_pub(file_name(path))

(***************************************************************************)
(* Deleting.                                                               *)
(***************************************************************************)
toggle_confirm_delete(s) == [s EXCEPT !.show_confirm_delete = ~@]

\* remove_selected with the selection kept unless the last entry was removed
remove_selected_keep_index(s) ==
    [s EXCEPT !.ssh_files = vec_remove(@, s.selected),
              !.selected = IF @ = Len(s.ssh_files) - 1 THEN saturating_sub1(@) ELSE @]

\* the two lines after a successful trash: Vec::remove and the new selection
remove_selected(s) ==
    [s EXCEPT !.ssh_files = vec_remove(@, s.selected),
              !.selected = saturating_sub1(@)]

moved_to_trash_line(path) ==
    <<"Move to trash: ">> \o path \o <<" -> SSH key moved to trash">>

\* confirm_delete_ssh_key with the two attempts joined by a short-circuit ||
confirm_delete_ssh_key_short_circuit(s) ==
    IF ~has_selected(s) THEN {s}
    ELSE
      LET private_key_path == ssh_dir_join(split_sep_first(selected_file(s)))
          public_key_path == ssh_dir_join(private_key_path \o <<PUB>>)
          other_file_path == ssh_dir_join(selected_file(s))
      IN UNION {
           LET s1 == trash_delete(s, private_key_path, w1)
               private_key_deleted == last_call_ok(s1)
               s2 == IF private_key_deleted THEN s1
                     ELSE trash_delete(s1, public_key_path, w2)
           IN IF private_key_deleted \/ last_call_ok(s2)
              THEN { remove_selected(push(s2, moved_to_trash_line(private_key_path))) }
              ELSE { LET s3 == trash_delete(s2, other_file_path, w3) IN
                     IF last_call_ok(s3)
                     THEN remove_selected(push(s3, moved_to_trash_line(other_file_path)))
                     ELSE s3 : w3 \in BOOLEAN }
           : w1 \in BOOLEAN, w2 \in BOOLEAN }

\* confirm_delete_ssh_key that removes the entry whatever the attempts gave
confirm_delete_ssh_key_always_removing(s) ==
    IF ~has_selected(s) THEN {s}
    ELSE
      LET private_key_path == ssh_dir_join(split_sep_first(selected_file(s)))
          public_key_path == ssh_dir_join(private_key_path \o <<PUB>>)
          other_file_path == ssh_dir_join(selected_file(s))
      IN UNION {
           LET s1 == trash_delete(s, private_key_path, w1)
               private_key_deleted == last_call_ok(s1)
               s2 == trash_delete(s1, public_key_path, w2)
               public_key_deleted == last_call_ok(s2)
           IN IF private_key_deleted \/ public_key_deleted
              THEN { remove_selected(push(s2, moved_to_trash_line(private_key_path))) }
              ELSE { LET s3 == trash_delete(s2, other_file_path, w3) IN
                     remove_selected(push(s3, moved_to_trash_line(other_file_path)))
                     : w3 \in BOOLEAN }
           : w1 \in BOOLEAN, w2 \in BOOLEAN }

confirm_delete_ssh_key(s) ==
    IF ~has_selected(s) THEN {s}
    ELSE
      LET private_key_path == ssh_dir_join(split_sep_first(selected_file(s)))
          public_key_path == ssh_dir_join(private_key_path \o <<PUB>>)
          other_file_path == ssh_dir_join(selected_file(s))
      IN UNION {
           LET s1 == trash_delete(s, private_key_path, w1)
               private_key_deleted == last_call_ok(s1)
               s2 == trash_delete(s1, public_key_path, w2)
               public_key_deleted == last_call_ok(s2)
           IN IF private_key_deleted \/ public_key_deleted
              THEN { remove_selected(push(s2, moved_to_trash_line(private_key_path))) }
              ELSE { LET s3 == trash_delete(s2, other_file_path, w3) IN
                     IF last_call_ok(s3)
                     THEN remove_selected(push(s3, moved_to_trash_line(other_file_path)))
                     ELSE s3 : w3 \in BOOLEAN }
           : w1 \in BOOLEAN, w2 \in BOOLEAN }

\* handle_confirm_delete_key_event that unloads the deleted key from the agent
handle_confirm_delete_key_event_unloading(s, key) ==
    CASE key.code = "Enter" ->
           Then(confirm_delete_ssh_key(Handling(s, "confirm_delete_ssh_key")),
                LAMBDA t : { toggle_confirm_delete([t EXCEPT !.agent = {}]) })
      [] key.code = "Esc" -> {toggle_confirm_delete(Handling(s, "toggle_confirm_delete"))}
      [] OTHER -> {s}

\* handle_confirm_delete_key_event where every key but Esc confirms
handle_confirm_delete_key_event_any_key(s, key) ==
    CASE key.code = "Esc" -> {toggle_confirm_delete(Handling(s, "toggle_confirm_delete"))}
      [] OTHER ->
           Then(confirm_delete_ssh_key(Handling(s, "confirm_delete_ssh_key")),
                LAMBDA t : {toggle_confirm_delete(t)})

handle_confirm_delete_key_event(s, key) ==
    CASE key.code = "Enter" ->
           Then(confirm_delete_ssh_key(Handling(s, "confirm_delete_ssh_key")),
                LAMBDA t : {toggle_confirm_delete(t)})
      [] key.code = "Esc" -> {toggle_confirm_delete(Handling(s, "toggle_confirm_delete"))}
      [] OTHER -> {s}

(***************************************************************************)
(* The create form.                                                        *)
(***************************************************************************)
toggle_create_ssh_key(s) ==
    LET t == [s EXCEPT !.show_create_form = ~@] IN
    IF t.show_create_form THEN [t EXCEPT !.create_form_state = 0] ELSE t

select_next_form_field(s) ==
    [s EXCEPT !.create_form_state = (@ + 1) % FORM_FIELD_COUNT]

select_previous_form_field(s) ==
    [s EXCEPT !.create_form_state = IF @ = 0 THEN FORM_FIELD_COUNT - 1 ELSE @ - 1]

handle_char_input(s, c) ==
    CASE s.create_form_state = 0 -> [s EXCEPT !.key_name = Append(@, c)]
      [] s.create_form_state = 3 -> [s EXCEPT !.passphrase = Append(@, c)]
      [] s.create_form_state = 4 -> [s EXCEPT !.re_passphrase = Append(@, c)]
      [] s.create_form_state = 5 -> [s EXCEPT !.comment = Append(@, c)]
      [] OTHER -> s

\* String::pop
pop(str) == IF str = <<>> THEN str ELSE SubSeq(str, 1, Len(str) - 1)

handle_backspace(s) ==
    CASE s.create_form_state = 0 -> [s EXCEPT !.key_name = pop(@)]
      [] s.create_form_state = 3 -> [s EXCEPT !.passphrase = pop(@)]
      [] s.create_form_state = 4 -> [s EXCEPT !.re_passphrase = pop(@)]
      [] s.create_form_state = 5 -> [s EXCEPT !.comment = pop(@)]
      [] OTHER -> s

handle_delete(s) ==
    CASE s.create_form_state = 0 -> [s EXCEPT !.key_name = <<>>]
      [] s.create_form_state = 3 -> [s EXCEPT !.passphrase = <<>>]
      [] s.create_form_state = 4 -> [s EXCEPT !.re_passphrase = <<>>]
      [] s.create_form_state = 5 -> [s EXCEPT !.comment = <<>>]
      [] OTHER -> s

handle_up_key(s) ==
    CASE s.create_form_state = 1 ->
           [s EXCEPT !.selected_key_type_index =
                        IF @ = 0 THEN Len(key_types) - 1 ELSE @ - 1]
      [] s.create_form_state = 2 ->
           [s EXCEPT !.selected_bits_index =
                        IF @ = 0 THEN Len(bits_options) - 1 ELSE @ - 1]
      [] OTHER -> s

handle_down_key(s) ==
    CASE s.create_form_state = 1 ->
           [s EXCEPT !.selected_key_type_index =
                        IF @ = Len(key_types) - 1 THEN 0 ELSE @ + 1]
      [] s.create_form_state = 2 ->
           [s EXCEPT !.selected_bits_index =
                        IF @ = Len(bits_options) - 1 THEN 0 ELSE @ + 1]
      [] OTHER -> s

\* clear_input_fields that forgets the name and the second passphrase field
clear_input_fields_partial(s) ==
    [s EXCEPT !.passphrase = <<>>, !.comment = <<>>]

clear_input_fields(s) ==
    [s EXCEPT !.key_name = <<>>, !.passphrase = <<>>,
              !.re_passphrase = <<>>, !.comment = <<>>]

\* key_name_with_fallback that keeps the blanks around the entered name
key_name_with_fallback_untrimmed(s, current_time) ==
    IF trim(s.key_name) = <<>>
    THEN <<"id_">> \o <<key_types[s.selected_key_type_index + 1]>> \o <<"_">>
         \o <<current_time>>
    ELSE s.key_name

\* the name the key is generated under
key_name_with_fallback(s, current_time) ==
    IF trim(s.key_name) = <<>>
    THEN <<"id_">> \o <<key_types[s.selected_key_type_index + 1]>> \o <<"_">>
         \o <<current_time>>
    ELSE trim(s.key_name)

\* keygen_log_line with the passphrase itself
keygen_log_line_raw(key_type, key_bits, key_path, pass, cmt) ==
    <<"ssh-keygen -t ", key_type, " -b ", key_bits, " -f ">> \o key_path
    \o <<" -N ">> \o pass \o <<" -C ">> \o cmt

\* the invocation as it is written to the command log
keygen_log_line(key_type, key_bits, key_path, pass, cmt) ==
    <<"ssh-keygen -t ", key_type, " -b ", key_bits, " -f ">> \o key_path
    \o <<" -N ">> \o repeat_star(Len(pass)) \o <<" -C ">> \o cmt

\* ssh-keygen writes <name> and <name>.pub; it cannot write into a directory
\* that does not exist, and with its stdin closed it cannot confirm the
\* overwrite of an existing key file
keygen_can_succeed(s, key_path) ==
    s.dir_exists /\ file_name(key_path) \notin s.dir

ssh_keygen(s, key_path, outcome, stderr) ==
    LET key_type == key_types[s.selected_key_type_index + 1]
        key_bits == bits_options[s.selected_bits_index + 1]
        t == called(s, Call("ssh-keygen", key_path,
                            <<key_type, key_bits, s.passphrase, s.comment>>, outcome,
                            IF outcome = "failure" THEN <<stderr>> ELSE <<>>))
    IN IF outcome = "success"
       THEN [t EXCEPT !.dir = @ \cup {file_name(key_path), file_name(key_path) \o <<PUB>>}]
       ELSE t

\* create_ssh_key that closes and clears the form whatever ssh-keygen reports
create_ssh_key_closing_on_failure(s) ==
    UNION {
      LET key_type == key_types[s.selected_key_type_index + 1]
          key_bits == bits_options[s.selected_bits_index + 1]
          key_path == ssh_dir_join(key_name_with_fallback(s, now))
          s1 == ssh_keygen(s, key_path, outcome, stderr)
          s2 == push(s1, keygen_log_line(key_type, key_bits, key_path,
                                         s.passphrase, s.comment))
      IN CASE outcome = "spawn_failed" -> { panic(s1) }
           [] outcome = "success" /\ keygen_can_succeed(s, key_path) ->
                { push(clear_input_fields(
                         [s2 EXCEPT !.ssh_files = files, !.selected = 0,
                                    !.show_create_form = FALSE]),
                       <<"SSH key created: ">> \o key_path)
                  : files \in load_ssh_files(s2.dir_exists, s2.dir) }
           [] outcome = "failure" ->
                { push(clear_input_fields([s2 EXCEPT !.show_create_form = FALSE]),
                       <<"Failed to create SSH key: ", stderr>>) }
           [] OTHER -> {}
      : now \in Timestamps, outcome \in Outcomes, stderr \in StderrTexts }

create_ssh_key(s) ==
    UNION {
      LET key_type == key_types[s.selected_key_type_index + 1]
          key_bits == bits_options[s.selected_bits_index + 1]
          key_path == ssh_dir_join(key_name_with_fallback(s, now))
          s1 == ssh_keygen(s, key_path, outcome, stderr)
          s2 == push(s1, keygen_log_line(key_type, key_bits, key_path,
                                         s.passphrase, s.comment))
      IN CASE outcome = "spawn_failed" -> { panic(s1) }
           [] outcome = "success" /\ keygen_can_succeed(s, key_path) ->
                { push(clear_input_fields(
                         [s2 EXCEPT !.ssh_files = files, !.selected = 0,
                                    !.show_create_form = FALSE]),
                       <<"SSH key created: ">> \o key_path)
                  : files \in load_ssh_files(s2.dir_exists, s2.dir) }
           [] outcome = "failure" ->
                { push(s2, <<"Failed to create SSH key: ", stderr>>) }
           [] OTHER -> {}
      : now \in Timestamps, outcome \in Outcomes, stderr \in StderrTexts }

\* handle_create_form_key_event without the comparison of the two passphrases
handle_create_form_key_event_unchecked(s, key) ==
    CASE key.code = "Enter" -> create_ssh_key(Handling(s, "create_ssh_key"))
      [] key.code = "Esc" -> { toggle_create_ssh_key(Handling(s, "toggle_create_ssh_key")) }
      [] key.code = "Tab" -> { select_next_form_field(Handling(s, "select_next_form_field")) }
      [] key.code = "BackTab" ->
           { select_previous_form_field(Handling(s, "select_previous_form_field")) }
      [] key.code = "Char" -> { handle_char_input(Handling(s, "handle_char_input"), key.c) }
      [] key.code = "Backspace" -> { handle_backspace(Handling(s, "handle_backspace")) }
      [] key.code = "Delete" -> { handle_delete(Handling(s, "handle_delete")) }
      [] key.code = "Up" -> { handle_up_key(Handling(s, "handle_up_key")) }
      [] key.code = "Down" -> { handle_down_key(Handling(s, "handle_down_key")) }
      [] OTHER -> {s}

handle_create_form_key_event(s, key) ==
    CASE key.code = "Enter" ->
           IF s.passphrase = s.re_passphrase
           THEN create_ssh_key(Handling(s, "create_ssh_key"))
           ELSE { push(Handling(s, "passphrase_mismatch"), <<"Passphrases do not match">>) }
      [] key.code = "Esc" -> { toggle_create_ssh_key(Handling(s, "toggle_create_ssh_key")) }
      [] key.code = "Tab" -> { select_next_form_field(Handling(s, "select_next_form_field")) }
      [] key.code = "BackTab" ->
           { select_previous_form_field(Handling(s, "select_previous_form_field")) }
      [] key.code = "Char" -> { handle_char_input(Handling(s, "handle_char_input"), key.c) }
      [] key.code = "Backspace" -> { handle_backspace(Handling(s, "handle_backspace")) }
      [] key.code = "Delete" -> { handle_delete(Handling(s, "handle_delete")) }
      [] key.code = "Up" -> { handle_up_key(Handling(s, "handle_up_key")) }
      [] key.code = "Down" -> { handle_down_key(Handling(s, "handle_down_key")) }
      [] OTHER -> {s}

(***************************************************************************)
(* The agent and the clipboard.                                            *)
(***************************************************************************)
\* get_fingerprint: Ok(fingerprint), Err(message), or a panic when ssh-keygen
\* cannot be started.  The result is left in calls: "spawn_failed", "failure",
\* or "success" with the fingerprint as output (the second word of what
\* ssh-keygen printed, "" when it printed fewer than two words)
get_fingerprint(s, path) ==
    { called(s, Call("ssh-keygen -lf", path, <<>>, "spawn_failed", <<>>)),
      called(s, Call("ssh-keygen -lf", path, <<>>, "failure", <<>>)),
      called(s, Call("ssh-keygen -lf", path, <<>>, "success", <<>>)) }
    \cup (IF path_exists(s, path)
          THEN { called(s, Call("ssh-keygen -lf", path, <<>>, "success",
                                Fingerprint(path))) }
          ELSE {})

\* is_key_in_agent: any line of the listing contains the fingerprint; every
\* line contains the empty fingerprint
listing_contains(s, fingerprint) ==
    IF fingerprint = <<>> THEN s.agent # {} ELSE fingerprint \in s.agent

\* is_key_in_agent comparing each line of the listing with the fingerprint for
\* equality: a line also holds the key's size and comment, so none is equal
is_key_in_agent_by_equality(s, fingerprint) ==
    { called(s, Call("ssh-add -l", <<>>, <<>>, "spawn_failed", <<>>)),
      called(s, Call("ssh-add -l", <<>>, <<>>, "failure", <<>>)) }
    \cup (IF s.agent # {}
          THEN { called(s, Call("ssh-add -l", <<>>, <<>>, "success", <<FALSE>>)) }
          ELSE {})

\* is_key_in_agent asking the agent to drop its keys (ssh-add -D) for the listing
is_key_in_agent_flushing(s, fingerprint) ==
    { called(s, Call("ssh-add -l", <<>>, <<>>, "spawn_failed", <<>>)),
      called(s, Call("ssh-add -l", <<>>, <<>>, "failure", <<>>)) }
    \cup (IF s.agent # {}
          THEN { [called(s, Call("ssh-add -l", <<>>, <<>>, "success",
                                 <<listing_contains(s, fingerprint)>>))
                    EXCEPT !.agent = {}] }
          ELSE {})

is_key_in_agent(s, fingerprint) ==
    { called(s, Call("ssh-add -l", <<>>, <<>>, "spawn_failed", <<>>)),
      called(s, Call("ssh-add -l", <<>>, <<>>, "failure", <<>>)) }
    \cup (IF s.agent # {}
          THEN { called(s, Call("ssh-add -l", <<>>, <<>>, "success",
                                <<listing_contains(s, fingerprint)>>)) }
          ELSE {})

last_call(s) == s.calls[Len(s.calls)]
in_agent(s) == last_call(s).result = "success" /\ last_call(s).output = <<TRUE>>

\* check_ssh_agent_status: every run it can make for the selected entry, as the
\* text it returns ("panic" where ssh-keygen or ssh-add cannot be started) and
\* the external calls it made, and the state its calls leave
agent_status_runs(s) ==
    LET s0 == [s EXCEPT !.calls = <<>>]
        run(text, t) == [status |-> text, calls |-> t.calls,
                         state |-> [t EXCEPT !.calls = s.calls]]
    IN
    IF ~has_selected(s) THEN { run(<<"No file selected">>, s0) }
    ELSE
      LET path == ssh_dir_join(split_sep_first(selected_file(s)) \o <<PUB>>) IN
      IF path_exists(s, path)
      THEN UNION {
             CASE last_call(t).result = "spawn_failed" -> { run(<<"panic">>, t) }
               [] last_call(t).result = "failure" ->
                    { run(<<"Failed to get SSH key fingerprint">>, t) }
               [] OTHER ->
                    { CASE last_call(u).result = "spawn_failed" -> run(<<"panic">>, u)
                        [] in_agent(u) -> run(<<"SSH key is added to agent">>, u)
                        [] OTHER -> run(<<"SSH key is not added to agent">>, u)
                      : u \in is_key_in_agent(t, last_call(t).output) }
             : t \in get_fingerprint(s0, path) }
      ELSE { run(<<"It's not a ssh key">>, s0) }

check_ssh_agent_status(s) == { r.status : r \in agent_status_runs(s) }

\* draw: the frame is rendered from the state, agent status included; the
\* program goes on in the state rendering leaves, unless rendering panics
draw(s) ==
    { IF r.status = <<"panic">> THEN panic(r.state) ELSE r.state
      : r \in agent_status_runs(s) }

not_a_pair_line(verb, half, file) ==
    <<"Cannot ", verb, ": ">> \o file \o <<" is not a ", half, " key file of an SSH pair">>

ssh_add(s, path) ==
    { called(s, Call("ssh-add", path, <<>>, "spawn_failed", <<>>)),
      called(s, Call("ssh-add", path, <<>>, "failure", <<>>)) }
    \cup (IF path_exists(s, path)
          THEN { [called(s, Call("ssh-add", path, <<>>, "success", <<>>)) EXCEPT
                    !.agent = @ \cup {Fingerprint(path)}] }
          ELSE {})

ssh_add_d(s, path) ==
    { called(s, Call("ssh-add -d", path, <<>>, "spawn_failed", <<>>)),
      called(s, Call("ssh-add -d", path, <<>>, "failure", <<>>)) }
    \cup (IF Fingerprint(path) \in s.agent
          THEN { [called(s, Call("ssh-add -d", path, <<>>, "success", <<>>)) EXCEPT
                    !.agent = @ \ {Fingerprint(path)}] }
          ELSE {})

\* the part add and remove share: the fingerprint, then the listing
fingerprint_then_listing(s, path) ==
    Then(get_fingerprint(s, path),
         LAMBDA t :
           CASE last_call(t).result = "spawn_failed" -> { panic(t) }
             [] last_call(t).result = "failure" ->
                  { push(t, <<"Failed to get SSH key fingerprint">>) }
             [] OTHER ->
                  { IF last_call(u).result = "spawn_failed" THEN panic(u) ELSE u
                    : u \in is_key_in_agent(t, last_call(t).output) })

\* add_ssh_key_to_agent that loads whatever the listing says
add_ssh_key_to_agent_unchecked(s) ==
    IF ~has_selected(s) THEN {s}
    ELSE IF ~contains_sep(selected_file(s))
    THEN { push(s, not_a_pair_line("add", "private", selected_file(s))) }
    ELSE
      LET path == ssh_dir_join(split_sep_first(selected_file(s))) IN
      Then(fingerprint_then_listing(s, path),
           LAMBDA t :
             CASE last_call(t).svc = "ssh-keygen -lf" -> {t}
               [] OTHER ->
                    { CASE last_call(u).result = "spawn_failed" -> panic(u)
                        [] last_call(u).result = "success" ->
                             push(u, <<"ssh-add ">> \o path
                                      \o <<" -> SSH key added to agent">>)
                        [] OTHER ->
                             push(u, <<"ssh-add ">> \o path
                                      \o <<" -> Failed to add SSH key to agent: ", "stderr">>)
                      : u \in ssh_add(t, path) })

add_ssh_key_to_agent(s) ==
    IF ~has_selected(s) THEN {s}
    ELSE IF ~contains_sep(selected_file(s))
    THEN { push(s, not_a_pair_line("add", "private", selected_file(s))) }
    ELSE
      LET path == ssh_dir_join(split_sep_first(selected_file(s))) IN
      Then(fingerprint_then_listing(s, path),
           LAMBDA t :
             CASE last_call(t).svc = "ssh-keygen -lf" -> {t}
               [] in_agent(t) ->
                    { push(t, <<"ssh-add ">> \o path
                               \o <<" -> SSH key is already added to agent">>) }
               [] OTHER ->
                    { CASE last_call(u).result = "spawn_failed" -> panic(u)
                        [] last_call(u).result = "success" ->
                             push(u, <<"ssh-add ">> \o path
                                      \o <<" -> SSH key added to agent">>)
                        [] OTHER ->
                             push(u, <<"ssh-add ">> \o path
                                      \o <<" -> Failed to add SSH key to agent: ", "stderr">>)
                      : u \in ssh_add(t, path) })

\* remove_ssh_key_from_agent that unloads whatever the listing says
remove_ssh_key_from_agent_unchecked(s) ==
    IF ~has_selected(s) THEN {s}
    ELSE IF ~contains_sep(selected_file(s))
    THEN { push(s, not_a_pair_line("remove", "private", selected_file(s))) }
    ELSE
      LET path == ssh_dir_join(split_sep_first(selected_file(s))) IN
      Then(fingerprint_then_listing(s, path),
           LAMBDA t :
             CASE last_call(t).svc = "ssh-keygen -lf" -> {t}
               [] OTHER ->
                    { CASE last_call(u).result = "spawn_failed" -> panic(u)
                        [] last_call(u).result = "success" ->
                             push(u, <<"ssh-add -d ">> \o path
                                      \o <<" -> SSH key removed from agent">>)
                        [] OTHER ->
                             push(u, <<"ssh-add -d ">> \o path
                                      \o <<" -> Failed to remove SSH key from agent: ",
                                           "stderr">>)
                      : u \in ssh_add_d(t, path) })

remove_ssh_key_from_agent(s) ==
    IF ~has_selected(s) THEN {s}
    ELSE IF ~contains_sep(selected_file(s))
    THEN { push(s, not_a_pair_line("remove", "private", selected_file(s))) }
    ELSE
      LET path == ssh_dir_join(split_sep_first(selected_file(s))) IN
      Then(fingerprint_then_listing(s, path),
           LAMBDA t :
             CASE last_call(t).svc = "ssh-keygen -lf" -> {t}
               [] ~in_agent(t) ->
                    { push(t, <<"ssh-add -d ">> \o path
                               \o <<" -> SSH key is not added to agent">>) }
               [] OTHER ->
                    { CASE last_call(u).result = "spawn_failed" -> panic(u)
                        [] last_call(u).result = "success" ->
                             push(u, <<"ssh-add -d ">> \o path
                                      \o <<" -> SSH key removed from agent">>)
                        [] OTHER ->
                             push(u, <<"ssh-add -d ">> \o path
                                      \o <<" -> Failed to remove SSH key from agent: ",
                                           "stderr">>)
                      : u \in ssh_add_d(t, path) })

\* what read_to_string returns for a file of the key directory
Content(path) == <<"content of ">> \o file_name(path)

copy_ssh_key_to_clipboard(s) ==
    IF ~has_selected(s) THEN {s}
    ELSE IF ~contains_sep(selected_file(s))
    THEN { push(s, not_a_pair_line("copy", "public", selected_file(s))) }
    ELSE
      LET path == ssh_dir_join(split_sep_first(selected_file(s)) \o <<PUB>>)
          failed == called(s, Call("read_to_string", path, <<>>, "failure", <<>>))
          read == called(s, Call("read_to_string", path, <<>>, "success", Content(path)))
      IN { push(failed, <<"Failed to copy SSH public key: ", "io error">>) }
         \cup (IF path_exists(s, path)
               THEN { panic(called(read, Call("clipboard", <<>>, <<>>, "failure", <<>>))),
                      push([called(read, Call("clipboard", <<>>, Content(path), "success", <<>>))
                              EXCEPT !.clipboard = Content(path)],
                           <<"Copy to clipboard: ">> \o path
                           \o <<" -> SSH public key copied to clipboard">>) }
               ELSE {})

(***************************************************************************)
(* Browsing and the key-bindings popup.                                    *)
(***************************************************************************)
\* quit that leaves the loop running
quit_ignored(s) == s

quit(s) == [s EXCEPT !.running = FALSE]

\* toggle_keybindings that also writes a line to the command log
toggle_keybindings_logging(s) ==
    [s EXCEPT !.show_key_bindings = ~@, !.command_log = Append(@, <<"Key bindings">>)]

toggle_keybindings(s) == [s EXCEPT !.show_key_bindings = ~@]

\* ssh_files.len() - 1 underflows on an empty list: a build with overflow
\* checks panics, a build without them wraps
select_next_ssh_file(s) ==
    IF Len(s.ssh_files) = 0
    THEN { panic(s),
           [s EXCEPT !.selected =
                       IF @ >= wrapping_sub1(Len(s.ssh_files)) THEN @ ELSE @ + 1] }
    ELSE { [s EXCEPT !.selected = IF @ >= Len(s.ssh_files) - 1 THEN @ ELSE @ + 1] }

select_previous_ssh_file(s) ==
    [s EXCEPT !.selected = IF @ = 0 THEN 0 ELSE @ - 1]

handle_general_key_event(s, key) ==
    CASE key = Char("q") -> { quit(Handling(s, "quit")) }
      [] key = Char("?") -> { toggle_keybindings(Handling(s, "toggle_keybindings")) }
      [] key = Char("n") -> { toggle_create_ssh_key(Handling(s, "toggle_create_ssh_key")) }
      [] key = Char("a") -> add_ssh_key_to_agent(Handling(s, "add_ssh_key_to_agent"))
      [] key = Char("d") -> { toggle_confirm_delete(Handling(s, "toggle_confirm_delete")) }
      [] key = Char("c") ->
           copy_ssh_key_to_clipboard(Handling(s, "copy_ssh_key_to_clipboard"))
      [] key = Char("r") ->
           remove_ssh_key_from_agent(Handling(s, "remove_ssh_key_from_agent"))
      [] key.code = "Down" -> select_next_ssh_file(Handling(s, "select_next_ssh_file"))
      [] key.code = "Up" ->
           { select_previous_ssh_file(Handling(s, "select_previous_ssh_file")) }
      [] OTHER -> {s}

select_previous_key_binding(s) ==
    [s EXCEPT !.key_bindings_state = IF @ = 0 THEN Len(KeyBindingItems) - 1 ELSE @ - 1]

select_next_key_binding(s) ==
    [s EXCEPT !.key_bindings_state = IF @ = Len(KeyBindingItems) - 1 THEN 0 ELSE @ + 1]

\* execute_selected_key_binding that leaves the popup open
execute_selected_key_binding_no_toggle(s) ==
    handle_general_key_event(s, Char(KeyBindingItems[s.key_bindings_state + 1]))

execute_selected_key_binding(s) ==
    Then(handle_general_key_event(s, Char(KeyBindingItems[s.key_bindings_state + 1])),
         LAMBDA t : { toggle_keybindings(t) })

\* handle_key_bindings_key_event where Down also moves the inventory selection
handle_key_bindings_key_event_moving_selection(s, key) ==
    CASE key.code = "Enter" -> execute_selected_key_binding(s)
      [] key.code = "Up" ->
           { select_previous_key_binding(Handling(s, "select_previous_key_binding")) }
      [] key.code = "Down" ->
           Then(select_next_ssh_file(Handling(s, "select_next_key_binding")),
                LAMBDA t : { select_next_key_binding(t) })
      [] key.code = "Esc" \/ key = Char("?") ->
           { toggle_keybindings(Handling(s, "toggle_keybindings")) }
      [] OTHER -> {s}

handle_key_bindings_key_event(s, key) ==
    CASE key.code = "Enter" -> execute_selected_key_binding(s)
      [] key.code = "Up" ->
           { select_previous_key_binding(Handling(s, "select_previous_key_binding")) }
      [] key.code = "Down" ->
           { select_next_key_binding(Handling(s, "select_next_key_binding")) }
      [] key.code = "Esc" \/ key = Char("?") ->
           { toggle_keybindings(Handling(s, "toggle_keybindings")) }
      [] OTHER -> {s}

on_key_event(s, key) ==
    IF s.show_confirm_delete THEN handle_confirm_delete_key_event(s, key)
    ELSE IF s.show_create_form THEN handle_create_form_key_event(s, key)
    ELSE IF s.show_key_bindings THEN handle_key_bindings_key_event(s, key)
    ELSE handle_general_key_event(s, key)

(***************************************************************************)
(* App::run.                                                               *)
(***************************************************************************)
\* up to the loop: running = true and the first scan
run_start ==
    /\ pc = "new"
    /\ \E files \in load_ssh_files(dir_exists, dir) :
         Becomes([State EXCEPT !.pc = "running", !.running = TRUE,
                               !.ssh_files = files,
                               !.last = [mode |-> "Browsing", op |-> "run", index |-> 0,
                                        agent |-> agent]])

\* the state in which the loop has taken the next event from the channel
Taken(s) ==
    [s EXCEPT !.budget = @ - 1, !.calls = <<>>,
              !.last = [mode |-> Mode(s), op |-> "none", index |-> s.selected,
                         agent |-> s.agent]]

\* one iteration of the loop on TerminalEvent::Key: the frame is drawn, the
\* event is taken and handled
run_key ==
    /\ pc = "running" /\ running /\ budget > 0
    /\ \E d \in draw(State) :
         IF d.pc = "panicked" THEN Becomes(d)
         ELSE \E key \in (IF Mode(d) = "CreatingKey" THEN FormKeys ELSE Keys) :
                \E t \in on_key_event(Taken(d), key) : Becomes(t)

\* one iteration on Tick, Mouse or Resize
run_other ==
    /\ pc = "running" /\ running /\ budget > 0
    /\ \E d \in draw(State) :
         IF d.pc = "panicked" THEN Becomes(d) ELSE Becomes(Taken(d))

\* the loop condition fails
run_return ==
    /\ pc = "running" /\ ~running
    /\ Becomes([State EXCEPT !.pc = "returned"])

Next == run_start \/ run_key \/ run_other \/ run_return

Spec == Init /\ [][Next]_vars

(***************************************************************************)
(* The loop together with the event thread and the channel between them.   *)
(***************************************************************************)
\* send that puts the event before the events that wait in the channel
send_to_front(eh, e, receiver_alive) ==
    IF receiver_alive THEN [eh EXCEPT !.receiver = <<e>> \o @]
    ELSE [eh EXCEPT !.handler = "panicked"]

\* sender.send(e): the event is appended to the channel; it fails, and the
\* thread panics on .expect, when the Receiver has been dropped
send(eh, e, receiver_alive) ==
    IF receiver_alive THEN [eh EXCEPT !.receiver = Append(@, e)]
    ELSE [eh EXCEPT !.handler = "panicked"]

\* the arm of the match on the event read that sends: Some(event), or None
\* for an arm that is Ok(())
sent_for(p) ==
    CASE p.ev = "Key" /\ p.press -> <<Key(p.key)>>
      [] p.ev = "Mouse" -> <<Mouse>>
      [] p.ev = "Resize" -> <<Resize>>
      [] OTHER -> <<>>

\* the Receiver lives as long as the App that owns the EventHandler
receiver_alive == pc \in {"new", "running"}

\* the first half of an iteration of the thread: poll, read and match
thread_poll ==
    /\ event_handler.handler = "poll" /\ event_handler.polls < MaxPolls
    /\ \E p \in Polled :
         LET eh == [event_handler EXCEPT !.polls = @ + 1] IN
         /\ event_handler' =
              CASE p.ev \in {"Err", "Paste"} -> [eh EXCEPT !.handler = "panicked"]
                [] p.ev = "Timeout" -> [eh EXCEPT !.handler = "tick_due"]
                [] sent_for(p) = <<>> -> [eh EXCEPT !.handler = "tick"]
                [] OTHER -> [send(eh, sent_for(p)[1], receiver_alive) EXCEPT
                               !.handler = IF @ = "panicked" THEN @ ELSE "tick"]
         /\ history' = [history EXCEPT
                          !.read = Append(@, p),
                          !.sent = IF receiver_alive THEN @ \o sent_for(p) ELSE @]
    /\ UNCHANGED <<pc, running, command_log, ssh_files, selected,
                   show_key_bindings, show_confirm_delete, show_create_form,
                   create_form_state, key_name, passphrase, re_passphrase, comment,
                   selected_key_type_index, selected_bits_index, key_bindings_state,
                   dir_exists, dir, trash, agent, clipboard, budget, last, calls>>

\* the second half: a Tick is sent when the tick rate has elapsed, which it
\* has when poll returned at its timeout
thread_tick ==
    /\ event_handler.handler \in {"tick", "tick_due"}
    /\ \E elapsed \in (IF event_handler.handler = "tick_due" THEN {TRUE} ELSE BOOLEAN) :
         IF elapsed
         THEN /\ event_handler' =
                   [send(event_handler, Tick, receiver_alive) EXCEPT
                      !.handler = IF @ = "panicked" THEN @ ELSE "poll"]
              /\ history' = [history EXCEPT
                               !.read = Append(@, [ev |-> "Elapsed", press |-> FALSE,
                                                   key |-> Code("")]),
                               !.sent = IF receiver_alive THEN Append(@, Tick) ELSE @]
         ELSE /\ event_handler' = [event_handler EXCEPT !.handler = "poll"]
              /\ UNCHANGED history
    /\ UNCHANGED <<pc, running, command_log, ssh_files, selected,
                   show_key_bindings, show_confirm_delete, show_create_form,
                   create_form_state, key_name, passphrase, re_passphrase, comment,
                   selected_key_type_index, selected_bits_index, key_bindings_state,
                   dir_exists, dir, trash, agent, clipboard, budget, last, calls>>

\* receiver.recv(): the oldest event of the channel; with an empty channel it
\* blocks while a Sender is left and is an error when none is
recv(eh) ==
    IF eh.receiver # <<>> THEN "event"
    ELSE IF Senders(eh) = {} THEN "disconnected"
    ELSE "blocked"

\* one iteration of the loop: the frame is drawn, next() returns and the
\* event is matched; an error of next() ends run with that error
run_next ==
    /\ pc = "running" /\ running /\ budget > 0
    /\ recv(event_handler) # "blocked"
    /\ \E d \in draw(State) :
         IF d.pc = "panicked" THEN Becomes(d)
         ELSE IF recv(event_handler) = "disconnected"
         THEN Becomes([d EXCEPT !.pc = "failed"])
         ELSE LET event == Head(event_handler.receiver) IN
              /\ \E t \in (IF event.ev = "Key" THEN on_key_event(Taken(d), event.key)
                            ELSE { Taken(d) }) : AppBecomes(t)
              /\ event_handler' = [event_handler EXCEPT !.receiver = Tail(@)]
              /\ history' = [history EXCEPT !.taken = Append(@, event)]

\* the directories the program is started with in these behaviours
EventDirs == { {}, {<<"k">>, <<"k", PUB>>} }

InitEvents ==
    /\ Init
    /\ dir_exists /\ dir \in EventDirs

NextEvents == run_start \/ thread_poll \/ thread_tick \/ run_next \/ run_return

SpecEvents == InitEvents /\ [][NextEvents]_vars

(***************************************************************************)
(* Behaviours that start where the user has opened the create form ('n')   *)
(* and typed into the name and the two passphrase fields: each such state  *)
(* is reached from Init by run_start, 'n', and Tab and character keys.     *)
(***************************************************************************)
Strs(n) == UNION { [1..k -> FormChars] : k \in 0..n }
FormDirs == { {}, {<<"q">>}, {<<"k">>, <<"k", PUB>>} }
\* the names typed into the name field: the texts over FormChars and a name
\* that ends in ".pub"
FormNames == Strs(MaxStrLen) \cup { <<"q", PUB>> }

InitForm ==
    /\ pc = "running"
    /\ running = TRUE
    /\ command_log = <<>>
    /\ dir_exists = TRUE
    /\ dir \in FormDirs
    /\ ssh_files \in load_ssh_files(dir_exists, dir)
    /\ selected = 0
    /\ show_key_bindings = FALSE
    /\ show_confirm_delete = FALSE
    /\ show_create_form = TRUE
    /\ create_form_state \in 0..(FORM_FIELD_COUNT - 1)
    /\ key_name \in FormNames
    /\ passphrase \in Strs(MaxStrLen)
    /\ re_passphrase \in Strs(MaxStrLen)
    /\ comment = <<>>
    /\ selected_key_type_index = 0
    /\ selected_bits_index = 1
    /\ key_bindings_state = 0
    /\ trash = {}
    /\ agent = {}
    /\ clipboard = <<>>
    /\ budget = MaxFormEvents
    /\ last = [mode |-> "CreatingKey", op |-> "handle_char_input", index |-> 0,
               agent |-> {}]
    /\ calls = <<>>
    /\ event_handler = EventHandler_new
    /\ history = [read |-> <<>>, sent |-> <<>>, taken |-> <<>>]

NextForm == run_key \/ run_other \/ run_return

SpecForm == InitForm /\ [][NextForm]_vars

(***************************************************************************)
(* The component SshFiles (components/ssh_files.rs).  Its files_name is    *)
(* held in ssh_files and its files_state in selected; the command-log      *)
(* lines it dispatches are appended to command_log by the log component.   *)
(***************************************************************************)
\* SshFiles::load_ssh_files: a pair is listed under the name of its public file
SshFiles_load_ssh_files(exists, d) ==
    IF exists
    THEN { MapSeq(a, PubLabel) \o b \o MapSeq(c, PubLabel) \o o :
             a \in Perms(private_keys(d) \cap public_keys(d)),
             b \in Perms(private_keys(d) \ public_keys(d)),
             c \in Perms(public_keys(d) \ private_keys(d)),
             o \in Perms(other_files(d)) }
         \cup { unreadable_scan }
    ELSE { <<NoFiles>> }

\* files_name.len() - 1 underflows on an empty list, as in App
SshFiles_select_next_ssh_file(s) ==
    IF Len(s.ssh_files) = 0
    THEN { panic(s),
           [s EXCEPT !.selected =
                       IF @ >= wrapping_sub1(Len(s.ssh_files)) THEN @ ELSE @ + 1] }
    ELSE { [s EXCEPT !.selected = IF @ >= Len(s.ssh_files) - 1 THEN @ ELSE @ + 1] }

SshFiles_select_previous_ssh_file(s) ==
    [s EXCEPT !.selected = IF @ = 0 THEN 0 ELSE @ - 1]

SshFiles_dispatch_command_log(s, line) ==
    [s EXCEPT !.command_log =
                ShhComandLog_update(@, [kind |-> "CaptureExecutedCommand",
                                        content |-> line])]

SshFiles_handle_delete_ssh_file(s) ==
    IF ~has_selected(s) THEN {s}
    ELSE
      LET private_key_path == ssh_dir_join(trim_end_matches_pub(selected_file(s)))
          public_key_path == ssh_dir_join(selected_file(s))
          other_file_path == ssh_dir_join(selected_file(s))
      IN UNION {
           LET s1 == trash_delete(s, private_key_path, w1)
               private_key_deleted == last_call_ok(s1)
               s2 == trash_delete(s1, public_key_path, w2)
               public_key_deleted == last_call_ok(s2)
           IN IF private_key_deleted \/ public_key_deleted
              THEN SshFiles_select_next_ssh_file(
                     [SshFiles_dispatch_command_log(s2, moved_to_trash_line(private_key_path))
                        EXCEPT !.ssh_files = vec_remove(@, s.selected)])
              ELSE { LET s3 == trash_delete(s2, other_file_path, w3) IN
                     IF last_call_ok(s3)
                     THEN remove_selected(
                            SshFiles_dispatch_command_log(s3, moved_to_trash_line(other_file_path)))
                     ELSE s3 : w3 \in BOOLEAN }
           : w1 \in BOOLEAN, w2 \in BOOLEAN }

\* SshFiles::new
SshFiles_new ==
    /\ pc = "new"
    /\ \E files \in SshFiles_load_ssh_files(dir_exists, dir) :
         Becomes([State EXCEPT !.pc = "component", !.ssh_files = files,
                               !.last = [mode |-> "Browsing", op |-> "new", index |-> 0,
                                        agent |-> agent]])

\* SshFiles::update on Action::DeleteSelectedFile
SshFiles_update ==
    /\ pc = "component" /\ budget > 0
    /\ \E t \in SshFiles_handle_delete_ssh_file(
                   Handling(Taken(State), "handle_delete_ssh_file")) : Becomes(t)

\* SshFiles::handle_key_event on Down and Up, the popup closed
SshFiles_handle_key_event ==
    /\ pc = "component" /\ budget > 0
    /\ \E t \in SshFiles_select_next_ssh_file(
                   Handling(Taken(State), "select_next_ssh_file"))
               \cup { SshFiles_select_previous_ssh_file(
                        Handling(Taken(State), "select_previous_ssh_file")) } : Becomes(t)

NextSshFiles == SshFiles_new \/ SshFiles_update \/ SshFiles_handle_key_event

SpecSshFiles == Init /\ [][NextSshFiles]_vars

(***************************************************************************)
(* Properties.                                                             *)
(***************************************************************************)
\* this step is the run loop processing the key event key
KeyStep(key) ==
    /\ pc = "running" /\ running /\ budget > 0
    /\ \E t \in on_key_event(Taken(State), key) : Becomes(t)

\* this step is the run loop processing some event
EventStep == budget' = budget - 1

Succeeded(c) == c.result = "success"
TrashedSome == \E i \in DOMAIN calls : calls[i].svc = "trash" /\ Succeeded(calls[i])

\* ---- C1 ----
\* C1: after every processed event at most one of show_confirm_delete,
\* show_create_form and show_key_bindings is true.
C1_OneModeAtATime ==
    Cardinality({ f \in {"delete", "create", "bindings"} :
                    \/ f = "delete" /\ show_confirm_delete
                    \/ f = "create" /\ show_create_form
                    \/ f = "bindings" /\ show_key_bindings }) <= 1

\* Enter on the 'd' item of the key-bindings popup has opened the confirmation
C1_Witness ==
    /\ last.mode = "ShowingBindings" /\ last.op = "toggle_confirm_delete"
    /\ show_confirm_delete /\ ~show_key_bindings

\* ---- C2 ----
\* C2: a file leaves the key directory only in a step that processes Enter in
\* ConfirmingDelete mode, and no other key explains such a step; the mode is
\* entered only by 'd' in Browsing or by Enter on the 'd' item of the popup.
C2_TrashOnlyOnConfirm ==
    [][ /\ ~(dir \subseteq dir') =>
            /\ show_confirm_delete
            /\ KeyStep(Code("Enter"))
            /\ \A key \in Keys \ {Code("Enter")} : ~KeyStep(key)
        /\ (~show_confirm_delete /\ show_confirm_delete') =>
            \/ Mode(State) = "Browsing" /\ KeyStep(Char("d"))
            \/ /\ Mode(State) = "ShowingBindings" /\ KeyStep(Code("Enter"))
               /\ KeyBindingItems[key_bindings_state + 1] = "d" ]_vars

\* a confirmed delete has moved a file to the trash
C2_Witness ==
    last.mode = "ConfirmingDelete" /\ last.op = "confirm_delete_ssh_key" /\ TrashedSome

\* ---- C3 ----
\* C3: a confirmed delete tries the private and the public file, both, whatever
\* the first attempt gave; if one of the two is moved the entry is removed and
\* the selection is an index of the new list; only if both fail is the entry's
\* literal file name tried, and the entry is removed iff that attempt succeeds.
C3_DeleteAttempts ==
    [][ (EventStep /\ last'.op = "confirm_delete_ssh_key" /\ selected < Len(ssh_files)) =>
          LET entry == ssh_files[selected + 1]
              private == <<SSH_DIR>> \o split_sep_first(entry)
              public == private \o <<PUB>>
              literal == <<SSH_DIR>> \o entry
              removed == [i \in 1..(Len(ssh_files) - 1) |->
                            IF i <= selected THEN ssh_files[i] ELSE ssh_files[i + 1]]
              entry_removed ==
                /\ ssh_files' = removed
                /\ \/ ssh_files' = <<>> /\ selected' = 0
                   \/ selected' < Len(ssh_files')
              entry_kept == ssh_files' = ssh_files /\ selected' = selected
          IN /\ Len(calls') >= 2
             /\ \A i \in DOMAIN calls' : calls'[i].svc = "trash"
             /\ calls'[1].path = private
             /\ calls'[2].path = public
             /\ IF Succeeded(calls'[1]) \/ Succeeded(calls'[2])
                THEN Len(calls') = 2 /\ entry_removed
                ELSE /\ Len(calls') = 3
                     /\ calls'[3].path = literal
                     /\ IF Succeeded(calls'[3]) THEN entry_removed ELSE entry_kept ]_vars

\* the public file was moved although the private file could not be
C3_Witness ==
    /\ last.op = "confirm_delete_ssh_key" /\ Len(calls) = 2
    /\ ~Succeeded(calls[1]) /\ Succeeded(calls[2])

\* ---- C4 ----
\* C4: no step loses a file: what was in the directory or in the trash is in
\* the directory or in the trash afterwards.
C4_NoFileLost == [][ (dir \cup trash) \subseteq (dir' \cup trash') ]_vars

\* a file has left the key directory
C4_Witness == trash # {} /\ TrashedSome

\* ---- C5 ----
\* C5: the selection is an index of the inventory when the inventory is not
\* empty, and 0 when it is empty.
C5_SelectionValid ==
    IF ssh_files = <<>> THEN selected = 0 ELSE selected < Len(ssh_files)

\* ---- C6 ----
DeletedEntry == last.op = "confirm_delete_ssh_key" /\ TrashedSome

C7_MismatchNeverGenerates ==
    [][ (EventStep /\ passphrase # re_passphrase) =>
          /\ \A i \in DOMAIN calls' : calls'[i].svc # "ssh-keygen"
          /\ (Mode(State) = "CreatingKey" /\ KeyStep(Code("Enter"))) =>
               /\ command_log' = Append(command_log, <<"Passphrases do not match">>)
               /\ show_create_form'
               /\ calls' = <<>> ]_vars

\* the form was submitted with two different passphrases
C7_Witness ==
    /\ last.op = "passphrase_mismatch" /\ passphrase # re_passphrase
    /\ passphrase # <<>> /\ re_passphrase # <<>>

\* ---- C8 ----
CreatedKey ==
    last.op = "create_ssh_key" /\ Len(calls) = 1 /\ Succeeded(calls[1])

\* C8: after ssh-keygen succeeded the inventory is a scan of the directory as
\* it is now, the selection is 0, the form is closed and its texts are empty.
C8_AfterCreate ==
    CreatedKey =>
      /\ ssh_files \in load_ssh_files(dir_exists, dir)
      /\ selected = 0
      /\ ~show_create_form
      /\ key_name = <<>> /\ passphrase = <<>> /\ re_passphrase = <<>> /\ comment = <<>>

\* a key with a typed name was created while the selection was not 0
C8_Witness ==
    CreatedKey /\ last.index >= 1 /\ calls[1].path = <<SSH_DIR, "q">> /\ ssh_files # <<>>

\* ---- C9 ----
\* C9: the log of a create submission is a log the same submission gives with
\* any other passphrase of the same length (and the same outcome).
C9_PassphraseRedacted ==
    [][ (EventStep /\ last'.op = "create_ssh_key") =>
          \A other \in [1..Len(passphrase) -> FormChars] :
            \E t \in create_ssh_key(
                       Handling(Taken([State EXCEPT !.passphrase = other,
                                                    !.re_passphrase = other]),
                                "create_ssh_key")) :
              /\ t.command_log = command_log'
              /\ t.calls[1].result = calls'[1].result
              /\ t.dir = dir' ]_vars

\* a submission with a passphrase has been logged
C9_Witness ==
    /\ last.op = "create_ssh_key" /\ calls[1].result # "spawn_failed"
    /\ calls[1].opts[3] # <<>> /\ command_log # <<>>

\* ---- C10 ----
\* C10: when ssh-keygen fails, what it printed is appended to the log, the
\* inventory and the selection are what they were, the form stays open and
\* every field keeps its value.
C10_FailedCreateKeepsForm ==
    [][ (EventStep /\ last'.op = "create_ssh_key" /\ calls'[1].result = "failure") =>
          /\ Len(command_log') = Len(command_log) + 2
          /\ SubSeq(command_log', 1, Len(command_log)) = command_log
          /\ command_log'[Len(command_log')]
               = <<"Failed to create SSH key: ">> \o calls'[1].output
          /\ ssh_files' = ssh_files /\ selected' = selected /\ dir' = dir
          /\ show_create_form'
          /\ key_name' = key_name /\ passphrase' = passphrase
          /\ re_passphrase' = re_passphrase /\ comment' = comment
          /\ selected_key_type_index' = selected_key_type_index
          /\ selected_bits_index' = selected_bits_index ]_vars

\* a submission with a name and a passphrase has failed
C10_Witness ==
    /\ last.op = "create_ssh_key" /\ calls[1].result = "failure"
    /\ key_name # <<>> /\ passphrase # <<>> /\ show_create_form

\* ---- C11 ----
\* this step processes the intent op on a selected entry whose label holds " - "
PairStep(op) ==
    /\ EventStep /\ last'.op = op
    /\ selected < Len(ssh_files) /\ contains_sep(ssh_files[selected + 1])

\* the private key path of the selected entry
SelectedPath == ssh_dir_join(split_sep_first(ssh_files[selected + 1]))

\* the first call of this step is the fingerprint query on path, the second,
\* if the query gave a fingerprint, the agent's listing
FingerprintThenListing(path) ==
    /\ Len(calls') >= 1
    /\ calls'[1].svc = "ssh-keygen -lf" /\ calls'[1].path = path
    /\ IF Succeeded(calls'[1])
       THEN Len(calls') >= 2 /\ calls'[2].svc = "ssh-add -l"
       ELSE Len(calls') = 1

\* the listing this step took shows the fingerprint this step computed
Listed ==
    /\ Len(calls') >= 2 /\ Succeeded(calls'[1]) /\ Succeeded(calls'[2])
    /\ listing_contains(State, calls'[1].output)

\* C11: add-to-agent on a pair asks for the fingerprint, then for the agent's
\* listing; when the listing shows the fingerprint (as it does whenever the key
\* is loaded and the listing succeeds) the step appends the already-added line
\* and calls no ssh-add; ssh-add <path> is called only as the third call, after
\* a listing of this step that did not show the fingerprint.
C11_AddChecksListingFirst ==
    [][ PairStep("add_ssh_key_to_agent") =>
          /\ FingerprintThenListing(SelectedPath)
          /\ (Succeeded(calls'[1]) /\ Succeeded(calls'[2])
                /\ Fingerprint(SelectedPath) \in agent) => Listed
          /\ Listed =>
               /\ Len(calls') = 2
               /\ command_log' = Append(command_log,
                     <<"ssh-add ">> \o SelectedPath
                       \o <<" -> SSH key is already added to agent">>)
               /\ agent' = agent
          /\ \A i \in DOMAIN calls' :
               calls'[i].svc = "ssh-add" =>
                 i = 3 /\ ~Listed /\ calls'[i].path = SelectedPath ]_vars

\* add-to-agent found the key in the listing it took
C11_Witness ==
    /\ last.op = "add_ssh_key_to_agent" /\ Len(calls) = 2
    /\ calls[2].svc = "ssh-add -l" /\ calls[2].output = <<TRUE>>
    /\ calls[1].output # <<>> /\ calls[1].output \in last.agent

\* ---- C13 ----
\* C13: remove-from-agent on a pair asks for the fingerprint, then for the
\* agent's listing; when the listing does not show the fingerprint (as when the
\* key is not loaded, or the listing fails) the step appends the not-added line
\* and calls no ssh-add -d; ssh-add -d <path> is called only as the third call,
\* after a listing of this step that showed the fingerprint.
C13_RemoveChecksListingFirst ==
    [][ PairStep("remove_ssh_key_from_agent") =>
          /\ FingerprintThenListing(SelectedPath)
          /\ (Succeeded(calls'[1]) /\ calls'[1].output = Fingerprint(SelectedPath)
                /\ Fingerprint(SelectedPath) \notin agent) => ~Listed
          /\ (Succeeded(calls'[1]) /\ calls'[2].result # "spawn_failed" /\ ~Listed) =>
               /\ Len(calls') = 2
               /\ command_log' = Append(command_log,
                     <<"ssh-add -d ">> \o SelectedPath
                       \o <<" -> SSH key is not added to agent">>)
               /\ agent' = agent
          /\ \A i \in DOMAIN calls' :
               calls'[i].svc = "ssh-add -d" =>
                 i = 3 /\ Listed /\ calls'[i].path = SelectedPath ]_vars

\* remove-from-agent found a listing without the key, although the agent holds
\* a key
C13_Witness ==
    /\ last.op = "remove_ssh_key_from_agent" /\ Len(calls) = 2
    /\ calls[1].output # <<>> /\ calls[2].svc = "ssh-add -l"
    /\ calls[2].result = "failure"
    /\ command_log # <<>>
    /\ command_log[Len(command_log)] =
         <<"ssh-add -d ">> \o calls[1].path \o <<" -> SSH key is not added to agent">>

\* ---- C12 ----
AlreadyAddedLine(path) ==
    <<"ssh-add ">> \o path \o <<" -> SSH key is already added to agent">>

Loads(cs) == { i \in DOMAIN cs : cs[i].svc = "ssh-add" }

\* this step is the second of two add-to-agent intents in a row on the same
\* pair, which was not loaded before the first
SecondAdd ==
    /\ PairStep("add_ssh_key_to_agent")
    /\ last.op = "add_ssh_key_to_agent" /\ last.index = selected
    /\ Fingerprint(SelectedPath) \notin last.agent

IsPairLabel(e) == \E n \in 1..Len(e) : e = PairLabel(SubSeq(e, 1, n))

\* C14: add-to-agent, remove-from-agent and copy on a selected entry that is
\* not a pair append exactly one line to the log and call no external service.
C14_NonPairNoService ==
    [][ ( /\ EventStep
          /\ last'.op \in {"add_ssh_key_to_agent", "remove_ssh_key_from_agent",
                           "copy_ssh_key_to_clipboard"}
          /\ selected < Len(ssh_files)
          /\ ~IsPairLabel(ssh_files[selected + 1]) ) =>
          /\ Len(command_log') = Len(command_log) + 1
          /\ SubSeq(command_log', 1, Len(command_log)) = command_log
          /\ calls' = <<>> ]_vars

\* ---- C15 ----
\* the public key path of the selected entry
SelectedPubPath == ssh_dir_join(split_sep_first(ssh_files[selected + 1]) \o <<PUB>>)

\* C15: copy on a pair reads the public file and hands its content to the
\* clipboard, logging success; when the read or the clipboard fails a line is
\* appended to the log and the program keeps running.
C15_CopyFailureLogged ==
    [][ PairStep("copy_ssh_key_to_clipboard") =>
          /\ Len(calls') >= 1
          /\ calls'[1].svc = "read_to_string" /\ calls'[1].path = SelectedPubPath
          /\ pc' = "running"
          /\ Len(command_log') = Len(command_log) + 1
          /\ IF \A i \in DOMAIN calls' : Succeeded(calls'[i])
             THEN /\ clipboard' = Content(SelectedPubPath)
                  /\ command_log'[Len(command_log')] =
                       <<"Copy to clipboard: ">> \o SelectedPubPath
                         \o <<" -> SSH public key copied to clipboard">>
             ELSE clipboard' = clipboard ]_vars

\* ---- C16 ----
\* the handlers of the five mutating intents
MutatingOps ==
    {"create_ssh_key", "passphrase_mismatch", "confirm_delete_ssh_key",
     "add_ssh_key_to_agent", "remove_ssh_key_from_agent", "copy_ssh_key_to_clipboard"}

\* C16: a create submission, and a confirmed delete, add, remove or copy with
\* an entry selected, that returns to the run loop has appended at least one
\* line to the log, whatever its external calls gave.
C16_EveryOutcomeLogged ==
    [][ ( /\ EventStep /\ last'.op \in MutatingOps
          /\ (last'.op \in {"create_ssh_key", "passphrase_mismatch"}
                \/ selected < Len(ssh_files))
          /\ pc' = "running" ) =>
          Len(command_log') > Len(command_log) ]_vars

\* ---- C17 ----
IsPrefix(a, b) == Len(a) <= Len(b) /\ SubSeq(b, 1, Len(a)) = a

\* the actions the log component can be given once the log is command_log'
LogActions ==
    { [kind |-> "Tick", content |-> <<>>] }
      \cup { [kind |-> "CaptureExecutedCommand", content |-> command_log'[i]] :
               i \in DOMAIN command_log' }

\* C17: in every step the log before is a prefix of the log after, and the log
\* component's update gives a log of which its argument is a prefix.
C17_LogAppendOnly ==
    [][ /\ IsPrefix(command_log, command_log')
        /\ \A a \in LogActions :
             IsPrefix(command_log, ShhComandLog_update(command_log, a)) ]_vars

\* two operations have been logged, one after the other
C17_Witness ==
    /\ Len(command_log) >= 2 /\ budget <= MaxEvents - 2
    /\ command_log[1] # command_log[2]
    /\ Len(calls) >= 1

\* ---- C18 ----
\* C18: an event in which an external call failed leaves the program running,
\* with a line appended to the log.
C18_FailureNeverTerminates ==
    [][ (EventStep /\ \E i \in DOMAIN calls' : ~Succeeded(calls'[i])) =>
          /\ pc' = "running"
          /\ Len(command_log') > Len(command_log) ]_vars

\* ---- C19 ----
\* the mutation this step attempted has failed: ssh-keygen did not create the
\* key, no trash attempt moved a file, or ssh-add / ssh-add -d did not succeed
FailedMutation ==
    /\ EventStep
    /\ \/ /\ last'.op = "create_ssh_key"
          /\ \E i \in DOMAIN calls' : calls'[i].svc = "ssh-keygen" /\ ~Succeeded(calls'[i])
       \/ /\ last'.op = "confirm_delete_ssh_key" /\ calls' # <<>>
          /\ \A i \in DOMAIN calls' : ~Succeeded(calls'[i])
       \/ /\ last'.op \in {"add_ssh_key_to_agent", "remove_ssh_key_from_agent"}
          /\ \E i \in DOMAIN calls' :
               calls'[i].svc \in {"ssh-add", "ssh-add -d"} /\ ~Succeeded(calls'[i])

\* C19: a step whose mutation failed leaves the inventory and the selection as
\* they were.
C19_FailedMutationKeepsInventory ==
    [][ FailedMutation => (ssh_files' = ssh_files /\ selected' = selected) ]_vars

\* every trash attempt on an entry of a real directory, selected below the
\* first, has failed
C19_Witness ==
    /\ last.op = "confirm_delete_ssh_key" /\ Len(calls) = 3
    /\ \A i \in DOMAIN calls : ~Succeeded(calls[i])
    /\ last.index >= 1 /\ selected = last.index /\ Len(ssh_files) >= 2

\* ---- C20 ----
\* the file that is the public half of an entry: <key>.pub for the pair
\* <key> - <key>.pub, the entry's own name for a public-only entry
HasPublicHalf(e) == IsPairLabel(e) \/ ends_with_pub(e)
PublicFile(e) == IF IsPairLabel(e) THEN split_sep_first(e) \o <<PUB>> ELSE e

\* C20: for the selected entry the status is "It's not a ssh key" exactly when
\* the entry has no public half or its public file is not in the directory;
\* when the file is there the status is one of added, not added, and the
\* fingerprint error.
C20_StatusNotAKey ==
    (pc = "running" /\ selected < Len(ssh_files)) =>
      LET e == ssh_files[selected + 1]
          exists == HasPublicHalf(e) /\ dir_exists /\ PublicFile(e) \in dir
      IN \A r \in check_ssh_agent_status(State) \ { <<"panic">> } :
           /\ (r = <<"It's not a ssh key">>) <=> ~exists
           /\ exists => r \in { <<"SSH key is added to agent">>,
                                 <<"SSH key is not added to agent">>,
                                 <<"Failed to get SSH key fingerprint">> }

\* ---- C21 ----
\* the selected entry is a pair whose public file is in the directory
PairSelected ==
    /\ pc = "running" /\ selected < Len(ssh_files)
    /\ IsPairLabel(ssh_files[selected + 1])
    /\ path_exists(State, SelectedPubPath)

\* C21: when the status of a pair is computed and the listing query does not
\* succeed, or the agent holds no key, the status is "not added": neither an
\* error text nor a panic.
C21_NoListingMeansNotLoaded ==
    PairSelected =>
      \A r \in agent_status_runs(State) :
        (Len(r.calls) = 2 /\ (~Succeeded(r.calls[2]) \/ agent = {})) =>
          r.status = <<"SSH key is not added to agent">>

\* ---- C22 ----
\* C22: a fingerprint query that succeeds gives a fingerprint that is not
\* empty, and the status of a pair is "added" only when the key's own
\* fingerprint is among the agent's keys.
C22_NoEmptyFingerprint ==
    PairSelected =>
      \A r \in agent_status_runs(State) :
        /\ Succeeded(r.calls[1]) => r.calls[1].output # <<>>
        /\ r.status = <<"SSH key is added to agent">> =>
             Fingerprint(SelectedPubPath) \in agent

\* ---- C23 ----
\* C23: drawing a frame, which computes the agent status of the selected
\* entry, calls only the fingerprint query and the listing and leaves the
\* inventory, the selection, the mode, the form, the log, the directory, the
\* trash, the agent and the clipboard as they are.
C23_StatusReadOnly ==
    pc = "running" =>
      \A r \in agent_status_runs(State) :
        /\ \A i \in DOMAIN r.calls :
             r.calls[i].svc \in {"ssh-keygen -lf", "ssh-add -l"}
        /\ r.state = State

\* a frame is drawn, after an event, with a loaded pair selected
C23_Witness ==
    /\ PairSelected /\ budget < MaxEvents /\ agent # {}
    /\ <<"SSH key is added to agent">> \in check_ssh_agent_status(State)

\* ---- C24 ----
\* a file name with the public suffix stripped once
strip_once(f) == IF ends_with_pub(f) THEN SubSeq(f, 1, Len(f) - 1) ELSE f

\* the base name of an inventory entry
EntryBase(e) == IF IsPairLabel(e) THEN split_sep_first(e) ELSE strip_once(e)

\* the inventories a scan that could read the directory can return now
FreshScans ==
    IF dir_exists /\ dir # {}
    THEN load_ssh_files(dir_exists, dir) \ { <<>> }
    ELSE load_ssh_files(dir_exists, dir)

\* C24: a scan of the directory has exactly one entry per base name of the
\* directory's files (suffix stripped once), and no other entry.
C24_OneEntryPerBaseName ==
    (pc = "running" /\ dir_exists) =>
      \A f \in FreshScans :
        /\ { EntryBase(f[i]) : i \in DOMAIN f } = { strip_once(x) : x \in dir }
        /\ Len(f) = Cardinality({ strip_once(x) : x \in dir })

\* ---- C25 ----
\* the base names of the directory's files that do not themselves end in .pub
PlainNames == { n \in { strip_once(x) : x \in dir } : ~ends_with_pub(n) }

Entries(f) == { f[i] : i \in DOMAIN f }

\* C25: for every name, the scan lists the pair <name> - <name>.pub iff the
\* directory holds <name> and <name>.pub, lists <name> alone iff it holds only
\* <name>, and lists <name>.pub alone iff it holds only <name>.pub; and every
\* pair listed has both its files in the directory.
C25_PairIffBothFiles ==
    (pc = "running" /\ dir_exists) =>
      \A f \in FreshScans :
        /\ \A e \in Entries(f) :
             IsPairLabel(e) =>
               (split_sep_first(e) \in dir /\ split_sep_first(e) \o <<PUB>> \in dir)
        /\ \A n \in PlainNames :
             /\ PairLabel(n) \in Entries(f) <=> (n \in dir /\ n \o <<PUB>> \in dir)
             /\ n \in Entries(f) <=> (n \in dir /\ n \o <<PUB>> \notin dir)
             /\ PubLabel(n) \in Entries(f) <=> (n \notin dir /\ n \o <<PUB>> \in dir)

\* ---- C26 ----
\* the group of the directory's scan an entry belongs to: 1 paired, 2
\* private-only, 3 public-only, 4 other
Rank(e) ==
    IF e \in { PairLabel(k) : k \in private_keys(dir) \cap public_keys(dir) } THEN 1
    ELSE IF e \in private_keys(dir) \ public_keys(dir) THEN 2
    ELSE IF e \in { PubLabel(k) : k \in public_keys(dir) \ private_keys(dir) } THEN 3
    ELSE 4

\* C26: in every inventory a scan returns, the pairs come before the
\* private-only entries, these before the public-only entries, and these
\* before the other entries (stated where the program scans: when run starts
\* and after a create).
C26_GroupOrder ==
    (pc = "running" /\ dir_exists /\ last.op \in {"run", "create_ssh_key"}) =>
      \A f \in FreshScans :
        \A i, j \in DOMAIN f : i < j => Rank(f[i]) <= Rank(f[j])

\* the first scan has listed two private-only entries and a public-only one
C26_Witness ==
    /\ pc = "running" /\ last.op = "run" /\ Len(ssh_files) = 3
    /\ Rank(ssh_files[1]) = 2 /\ Rank(ssh_files[2]) = 2 /\ Rank(ssh_files[3]) = 3

\* ---- C27 ----
\* the file h stands for a file that is no key, such as known_hosts
known_hosts == <<"h">>

\* C27: a file that is no key is classified as other, not as a private key,
\* and is listed under its own name after every key entry.
C27_OtherEntry ==
    (pc = "running" /\ dir_exists /\ known_hosts \in dir) =>
      /\ known_hosts \in other_files(dir)
      /\ known_hosts \notin private_keys(dir)
      /\ \A f \in FreshScans :
           \E i \in DOMAIN f :
             f[i] = known_hosts /\ \A j \in DOMAIN f : j > i => Rank(f[j]) = 4

\* ---- C28 ----
\* C28: when the key directory does not exist the scan returns the one entry
\* "No SSH files found"; add, remove and copy with that entry selected append
\* one line to the log and call no external service.
C28_MissingDirSentinel ==
    pc = "running" =>
      /\ ~dir_exists => load_ssh_files(dir_exists, dir) = { <<NoFiles>> }
      /\ (selected < Len(ssh_files) /\ ssh_files[selected + 1] = NoFiles) =>
           \A t \in add_ssh_key_to_agent(State) \cup remove_ssh_key_from_agent(State)
                     \cup copy_ssh_key_to_clipboard(State) :
             /\ t.calls = calls /\ t.pc = "running"
             /\ Len(t.command_log) = Len(command_log) + 1
             /\ t.agent = agent /\ t.clipboard = clipboard

\* copy was asked for on the sentinel of a missing directory
C28_Witness ==
    /\ pc = "running" /\ ~dir_exists /\ ssh_files = <<NoFiles>>
    /\ last.op = "copy_ssh_key_to_clipboard" /\ calls = <<>>
    /\ command_log =
         << not_a_pair_line("copy", "public", NoFiles) >>

\* ---- C29 ----
\* C29: what a scan returns when the directory cannot be read is not what a
\* scan that read an empty directory returns.
C29_UnreadableDistinguishable ==
    (pc = "running" /\ dir_exists) =>
      \A f \in read_dir_scan({}) : f # unreadable_scan

\* ---- C30 ----
\* C30: after a create that succeeded and after a confirmed delete that removed
\* an entry, the inventory in memory is one a scan of the directory as it is
\* now can return, whichever of the files the trash took.
C30_InventoryIsFreshScan ==
    /\ CreatedKey => ssh_files \in load_ssh_files(dir_exists, dir)
    /\ DeletedEntry =>
          ssh_files \in (IF dir_exists THEN read_dir_scan(dir) ELSE { <<NoFiles>> })

\* ---- C31 ----
\* the name ssh-keygen was called with by the create that has just succeeded
CreatedName == file_name(calls[1].path)

\* C31: after a create that succeeded, the inventory the scan of the directory
\* gave lists the created key as the pair <name> - <name>.pub.
C31_CreatedKeyIsPaired ==
    (CreatedKey /\ ssh_files \in read_dir_scan(dir)) =>
      PairLabel(CreatedName) \in Entries(ssh_files)

\* ---- C32 ----
\* a text of blanks only
Blank(str) == \A i \in DOMAIN str : str[i] = " "

\* a text without the blanks before its first and after its last other character
Stripped(str) ==
    LET nonblank == { i \in DOMAIN str : str[i] # " " }
        first == CHOOSE i \in nonblank : \A j \in nonblank : i <= j
        final == CHOOSE i \in nonblank : \A j \in nonblank : j <= i
    IN IF nonblank = {} THEN <<>> ELSE SubSeq(str, first, final)

\* C32: create calls ssh-keygen with the path of id_<type>_<seconds>, of the
\* type selected in the form, when the name field is blank, and with the path
\* of the entered name without its surrounding blanks otherwise.
C32_GeneratedName ==
    [][ (EventStep /\ last'.op = "create_ssh_key" /\ calls' # <<>>) =>
          /\ calls'[1].svc = "ssh-keygen"
          /\ calls'[1].opts[1] = key_types[selected_key_type_index + 1]
          /\ IF Blank(key_name)
             THEN \E now \in Timestamps :
                    calls'[1].path =
                      <<SSH_DIR, "id_", key_types[selected_key_type_index + 1], "_", now>>
             ELSE calls'[1].path = <<SSH_DIR>> \o Stripped(key_name) ]_vars

\* a key was generated under the fallback name of a type chosen in the form
C32_Witness ==
    /\ last.op = "create_ssh_key" /\ Len(calls) = 1
    /\ calls[1].path = <<SSH_DIR, "id_", "dsa", "_", "1700000000">>

\* ---- C33 ----
\* the events of the channel that the thread is to send for what it has read:
\* key presses, mouse and resize events, and a Tick whenever the rate elapsed
RECURSIVE Enqueued(_)
Enqueued(read) ==
    IF read = <<>> THEN <<>>
    ELSE LET p == Head(read) IN
         (CASE p.ev = "Key" /\ p.press -> <<Key(p.key)>>
            [] p.ev = "Mouse" -> <<Mouse>>
            [] p.ev = "Resize" -> <<Resize>>
            [] p.ev = "Elapsed" -> <<Tick>>
            [] OTHER -> <<>>) \o Enqueued(Tail(read))

\* C33: the events the loop has taken, followed by those waiting in the
\* channel, are the events the thread has sent, in the order it sent them; and
\* while the loop lives these are the key presses, mouse events, resizes and
\* ticks the thread has read, in the order it read them.
C33_ArrivalOrder ==
    /\ history.taken \o event_handler.receiver = history.sent
    /\ receiver_alive => history.sent = Enqueued(history.read)

\* the loop has taken a key press and a tick, a released key was dropped, and
\* an event is still waiting
C33_Witness ==
    /\ Len(history.taken) = 2 /\ history.taken[1].ev = "Key" /\ history.taken[2] = Tick
    /\ \E i \in DOMAIN history.read : history.read[i].ev = "Key" /\ ~history.read[i].press
    /\ event_handler.receiver # <<>>

\* ---- C34 ----
\* C34: the selection an event leaves differs from the selection it was taken
\* with only when the event was Up or Down in Browsing, a create that
\* succeeded, or a confirmed delete that removed an entry; so Up and Down in
\* ConfirmingDelete, CreatingKey and ShowingBindings leave it as it was.
C34_SelectionChanges ==
    selected # last.index =>
      \/ /\ last.mode = "Browsing"
         /\ last.op \in {"select_next_ssh_file", "select_previous_ssh_file"}
      \/ CreatedKey
      \/ DeletedEntry

\* Down was pressed in the key-bindings popup with the second entry selected
C34_Witness ==
    /\ last.mode = "ShowingBindings" /\ last.op = "select_next_key_binding"
    /\ key_bindings_state = 1 /\ selected = 1 /\ last.index = 1

\* ---- C35 ----
\* C35: after the component's handle_delete_ssh_file has removed the selected
\* entry, the selection is an index of the list that is left, or 0 when the
\* list is empty, and the handler has returned.
C35_ComponentSelectionValid ==
    (last.op = "handle_delete_ssh_file" /\ TrashedSome) =>
      /\ pc # "panicked"
      /\ IF ssh_files = <<>> THEN selected = 0 ELSE selected < Len(ssh_files)

\* ---- C36 ----
\* C36: an Esc key event processed in ConfirmingDelete, CreatingKey or
\* ShowingBindings leaves the program in Browsing and leaves the inventory,
\* the selection, the command log, the directory, the trash, the agent and
\* the clipboard as they were.
C36_EscReturnsToBrowsing ==
    [][ (KeyStep(Code("Esc")) /\ Mode(State) # "Browsing") =>
          /\ ~show_confirm_delete' /\ ~show_create_form' /\ ~show_key_bindings'
          /\ pc' = "running" /\ running'
          /\ UNCHANGED <<ssh_files, selected, command_log, dir_exists, dir, trash,
                         agent, clipboard>> ]_vars

\* Esc was pressed in the create form after a create that failed
C36_Witness ==
    /\ last.mode = "CreatingKey" /\ last.op = "toggle_create_ssh_key"
    /\ Mode(State) = "Browsing" /\ pc = "running"
    /\ \E i \in DOMAIN command_log : command_log[i][1] = "Failed to create SSH key: "

\* ---- C37 ----
\* C37: Down in Browsing on an empty inventory completes and leaves the
\* selection at 0; on an inventory that is not empty Down adds one to the
\* selection unless it is the last index, and Up takes one off unless it is 0.
C37_DownUpNoWrap ==
    (last.mode = "Browsing" /\ last.op \in {"select_next_ssh_file", "select_previous_ssh_file"}) =>
      /\ ssh_files = <<>> => pc # "panicked"
      /\ selected =
           IF last.op = "select_next_ssh_file"
           THEN (IF ssh_files = <<>> THEN 0
                 ELSE IF last.index >= Len(ssh_files) - 1 THEN last.index
                 ELSE last.index + 1)
           ELSE (IF last.index = 0 THEN 0 ELSE last.index - 1)

\* ---- C38 ----
\* C38: whenever run waits in next() on an empty channel, the thread that
\* feeds the channel is still running.
C38_NeverWaitsWithoutProducer ==
    (pc = "running" /\ running /\ recv(event_handler) = "blocked") =>
      event_handler.handler # "panicked"

\* ---- C39 ----
\* C39: a confirmed delete calls the trash and nothing else, and the keys the
\* agent holds after it are the keys it held before.
C39_DeleteLeavesAgent ==
    last.op = "confirm_delete_ssh_key" =>
      /\ agent = last.agent
      /\ \A i \in DOMAIN calls : calls[i].svc = "trash"

\* the files of a key the agent holds were moved to the trash
C39_Witness ==
    /\ DeletedEntry /\ Fingerprint(<<SSH_DIR, "k">>) \in agent
    /\ {<<"k">>, <<"k", PUB>>} \subseteq trash

\* ---- C40 ----
\* C40: a 'q' key event processed in Browsing sets running to false; running
\* becomes false by no other event, so not by 'q' in ConfirmingDelete,
\* CreatingKey or ShowingBindings; and once running is false the only step is
\* the return of run, which processes no event.
C40_QuitExactly ==
    [][ /\ (KeyStep(Char("q")) /\ Mode(State) = "Browsing") => ~running'
        /\ (running /\ ~running') =>
             (EventStep /\ last'.op = "quit" /\ last'.mode = "Browsing")
        /\ ~running =>
             (pc' = "returned" /\ UNCHANGED <<budget, last, calls, command_log,
                                              ssh_files, selected>>) ]_vars

\* run has returned after 'q', typed once in the create form and once in Browsing
C40_Witness ==
    /\ pc = "returned" /\ last.op = "quit" /\ ~running
    /\ key_name = <<"q">>
====
